---- MODULE Spec2Model ----
(***************************************************************************)
(* Court-case monitoring bot: the threat classification and deduplicated   *)
(* notification pipeline (src/services/monitoring.py, notifier.py,         *)
(* worksection_sync.py, storage/repository.py, utils/case_normalizer.py).  *)
(*                                                                         *)
(* Text is modelled as a sequence of one-character strings.  The source    *)
(* alphabet is Cyrillic; the characters are written here in ASCII:         *)
(*   digits "0".."9", "/", "-", " " and "#" stand for themselves,          *)
(*   "No" is the numero sign,                                              *)
(*   "s","p","r","a","v","c" are lower-case Cyrillic letters and           *)
(*   "S","P","R","A","V","C" the same letters in upper case,               *)
(*   "x" is any character outside all of these classes (a Latin letter).   *)
(* The texts of the threat analyzer use further Cyrillic letters, written  *)
(* in transliteration ("k","o","u","t","d","l","i","ya","b","n","e","zh",  *)
(* "g","y","ch","m", "j" for the soft sign; "K", "D" are upper case).  The *)
(* keyword literals of threat_analyzer.py and monitoring.py are stored in  *)
(* the source files as double-encoded text; their characters are written   *)
(* by name ("en" and "em" are the dashes, "A:" is A with diaeresis, ...).  *)
(* A missing value (Python None or the empty string) is 0 for an id and    *)
(* the empty sequence for a text.                                          *)
(***************************************************************************)
EXTENDS Integers, Sequences, FiniteSets, TLC

(***************************************************************************)
(* Bounds of the model.                                                    *)
(***************************************************************************)
MaxRuns == 2
MaxHist == 2

(***************************************************************************)
(* Characters and Python string primitives.                                *)
(***************************************************************************)
DigitChars == {"0", "1", "2", "3", "4", "5", "6", "7", "8", "9"}
CyrLower == {"s", "p", "r", "a", "v", "c",
             "k", "o", "u", "t", "d", "l", "i", "ya", "b", "n", "e", "zh", "g", "y",
             "ch", "m", "j"}
CyrUpper == {"S", "P", "R", "A", "V", "C", "K", "D"}
SpaceChars == {" "}

\* str(n) for a non-negative integer, as a sequence of digit values
RECURSIVE Digits(_)
Digits(n) == IF n < 10 THEN <<n>> ELSE Append(Digits(n \div 10), n % 10)

\* Python's str(notificationId): the empty string when the id is missing
IdStr(n) == IF n = 0 THEN <<>> ELSE Digits(n)

\* Python's a < b on strings of digits: lexicographic, a proper prefix is smaller
RECURSIVE SeqLess(_, _)
SeqLess(a, b) ==
    IF b = <<>> THEN FALSE
    ELSE IF a = <<>> THEN TRUE
    ELSE IF Head(a) # Head(b) THEN Head(a) < Head(b)
    ELSE SeqLess(Tail(a), Tail(b))

\* notification_id > max_id  (monitoring.py:143), both operands are str
StrGt(a, b) == SeqLess(IdStr(b), IdStr(a))

\* notification_id <= last_id  (monitoring.py:147)
StrLeq(a, b) == ~SeqLess(IdStr(b), IdStr(a))

\* s.lstrip('0') on a sequence of digit values
RECURSIVE LStrip0(_)
LStrip0(s) == IF s # <<>> /\ Head(s) = 0 THEN LStrip0(Tail(s)) ELSE s

\* the number of leading characters of s, from position i on, that are in class
RECURSIVE Run(_, _, _)
Run(s, i, class) ==
    IF i <= Len(s) /\ s[i] \in class THEN 1 + Run(s, i + 1, class) ELSE 0

Drop(s, n) == SubSeq(s, n + 1, Len(s))

\* s.strip(): whitespace removed at both ends
RECURSIVE RStrip(_)
RStrip(s) ==
    IF s # <<>> /\ s[Len(s)] \in SpaceChars THEN RStrip(SubSeq(s, 1, Len(s) - 1)) ELSE s

Strip(s) == RStrip(Drop(s, Run(s, 1, SpaceChars)))

ToLower(ch) ==
    CASE ch = "S" -> "s" [] ch = "P" -> "p" [] ch = "R" -> "r"
      [] ch = "A" -> "a" [] ch = "V" -> "v" [] ch = "C" -> "c"
      [] ch = "K" -> "k" [] ch = "D" -> "d"
      [] ch = "A:" -> "a:" [] ch = "OMEGA" -> "omega"
      [] ch = "AO" -> "ao" [] ch = "C," -> "c," [] ch = "U:" -> "u:"
      [] OTHER -> ch

\* s.lower()
Lower(s) == [k \in 1..Len(s) |-> ToLower(s[k])]

\* pat in text
Contains(text, pat) ==
    \E i \in 1..(Len(text) - Len(pat) + 1) : SubSeq(text, i, i + Len(pat) - 1) = pat

\* text.replace(' ', '')
RECURSIVE RemoveSpaces(_)
RemoveSpaces(s) ==
    IF s = <<>> THEN <<>>
    ELSE IF Head(s) = " " THEN RemoveSpaces(Tail(s))
    ELSE <<Head(s)>> \o RemoveSpaces(Tail(s))

\* a or b, for texts
OrText(a, b) == IF a # <<>> THEN a ELSE b

(***************************************************************************)
(* Case Number Normalizer (utils/case_normalizer.py).                      *)
(***************************************************************************)
\* WORKSECTION_CASE_PATTERN: (\d{3,4}/\d+/\d{2}(?:-[Cyrillic letters]+)?)
\* The length of the match of the pattern that starts at position i, 0 if none.
\* Every quantified part is followed by a literal "/", so a greedy match with
\* backtracking has one candidate per length of the first group.
MatchFrom(s, i, n1) ==
    LET d1 == Run(s, i, DigitChars)
        p2 == i + n1 + 1
        d2 == Run(s, p2, DigitChars)
        p3 == p2 + d2 + 1
        d3 == Run(s, p3, DigitChars)
        p4 == p3 + 2
        suffix == IF p4 <= Len(s) /\ s[p4] = "-"
                  THEN Run(s, p4 + 1, CyrLower \cup CyrUpper) ELSE 0
    IN  IF /\ d1 >= n1
           /\ i + n1 <= Len(s) /\ s[i + n1] = "/"
           /\ d2 >= 1
           /\ p2 + d2 <= Len(s) /\ s[p2 + d2] = "/"
           /\ d3 >= 2
        THEN (p4 - i) + (IF suffix > 0 THEN 1 + suffix ELSE 0)
        ELSE 0

MatchAt(s, i) ==
    IF MatchFrom(s, i, 4) > 0 THEN MatchFrom(s, i, 4) ELSE MatchFrom(s, i, 3)

\* re.search: the leftmost position from `from` on where the pattern matches, 0 if none
RECURSIVE SearchFrom(_, _)
SearchFrom(s, from) ==
    IF from > Len(s) THEN 0
    ELSE IF MatchAt(s, from) > 0 THEN from
    ELSE SearchFrom(s, from + 1)

\* re.sub(r'^sprava\s*', '', cleaned, flags=re.IGNORECASE)
CaseWord == <<"s", "p", "r", "a", "v", "a">>

\* a variant that always removes the first character
DropOne(s) == Drop(s, 1)

StripCaseWord(s) ==
    IF /\ Len(s) >= Len(CaseWord)
       /\ \A k \in 1..Len(CaseWord) : ToLower(s[k]) = CaseWord[k]
    THEN Drop(s, Len(CaseWord) + Run(s, Len(CaseWord) + 1, SpaceChars))
    ELSE s

\* normalize_case_number(raw); <<>> is None
normalize_case_number(raw) ==
    IF raw = <<>> THEN <<>>
    ELSE LET stripped == Strip(raw)
             noMark == Drop(stripped, Run(stripped, 1, {"No", "#"} \cup SpaceChars))
             cleaned == StripCaseWord(noMark)
             at == SearchFrom(cleaned, 1)
         IN  IF at > 0 THEN SubSeq(cleaned, at, at + MatchAt(cleaned, at) - 1)
             ELSE <<>>

\* re.findall(pattern, text): the non-overlapping matches, left to right
RECURSIVE FindAll(_, _)
FindAll(s, from) ==
    LET at == SearchFrom(s, from)
    IN  IF at = 0 THEN <<>>
        ELSE <<SubSeq(s, at, at + MatchAt(s, at) - 1)>>
                 \o FindAll(s, at + MatchAt(s, at))

\* a variant that keeps every match
KeepAll(ms, seen) == ms

RECURSIVE DedupKeepOrder(_, _)
DedupKeepOrder(ms, seen) ==
    IF ms = <<>> THEN <<>>
    ELSE IF Head(ms) \in seen THEN DedupKeepOrder(Tail(ms), seen)
    ELSE <<Head(ms)>> \o DedupKeepOrder(Tail(ms), seen \cup {Head(ms)})

\* extract_case_numbers(text)
extract_case_numbers(text) ==
    IF text = <<>> THEN <<>> ELSE DedupKeepOrder(FindAll(text, 1), {})

\* generate_case_key(case_id, case_number, court_code): the notifier passes
\* court_code = case_data.get('court_code'), a key check_new_cases never sets.
\* The key "odb:<id>" or "case:<number>" is a record; the unused part is empty.
generate_case_key(case_id, case_number) ==
    IF case_id # 0
    THEN [ns |-> "odb", id |-> case_id, num |-> <<>>]
    ELSE [ns |-> "case",
          id |-> 0,
          num |-> IF normalize_case_number(case_number) # <<>>
                  THEN normalize_case_number(case_number) ELSE case_number]

(***************************************************************************)
(* Threat analyzer (services/threat_analyzer.py, config/settings.py).      *)
(***************************************************************************)
\* the literal of threat_analyzer.py:40 as the file holds it: the ten letters
\* "kryminaljn", each written as the two characters its UTF-8 bytes give when
\* read as Mac Roman; the 4th, 12th and 20th characters are upper-case letters
CriminalKeyword ==
    <<"en", "int", "em", "A:", "en", "prod", "en", "o_", "em", "n~",
      "en", "OMEGA", "en", "inf", "en", "a_", "em", "ao", "en", "OMEGA">>

\* the literals of threat_analyzer.py:45, 48 and 51 as the file holds them:
\* "gospodarsjk", "administratyvn" and "cyviljn" in the same double encoding
\* ("AO" is A with ring, "C," is C with cedilla, "U:" is U with diaeresis)
CommercialKeyword ==
    <<"en", "ge", "en", "ae", "em", "AO", "en", "o/", "en", "ae", "en", "yen",
      "en", "inf", "em", "A:", "em", "AO", "em", "ao", "en", "int">>

AdministrativeKeyword ==
    <<"en", "inf", "en", "yen", "en", "o_", "em", "n~", "en", "OMEGA", "em", "n~",
      "em", "AO", "em", "C,", "em", "A:", "en", "inf", "em", "C,", "en", "prod",
      "en", "le", "en", "OMEGA">>

CivilKeyword ==
    <<"em", "U:", "en", "prod", "en", "le", "em", "n~", "en", "a_", "em", "ao",
      "en", "OMEGA">>

\* an entry of analysis_notes: the note of a category, or the note of line 75
\* with the pattern it names
Note(kind, pattern) == [note |-> kind, pattern |-> pattern]

\* the literal of monitoring.py:181 as the file holds it: "Kryminaljne", each
\* letter written as the two characters its UTF-8 bytes give when read as cp1252
CriminalFormLiteral ==
    <<"ETH", "s^", "NTILDE", "eur", "ETH", "cedil", "ETH", "q14", "NTILDE", "en",
      "ETH", "q12", "ETH", "deg", "ETH", "raq", "NTILDE", "OE", "ETH", "q12",
      "ETH", "mu">>

\* settings.dangerous_plaintiffs_list with the default DANGEROUS_PLAINTIFFS
dangerous_plaintiffs_list ==
    << <<"p", "r", "o", "k", "u", "r", "a", "t", "u", "r", "a">>,
       <<"p", "o", "d", "a", "t", "k", "o", "v", "a">>,
       <<"p", "o", "l", "i", "c", "i", "ya">>,
       <<"d", "b", "r">>,
       <<"n", "a", "b", "u">>,
       <<"s", "b", "u">>,
       <<"d", "e", "r", "zh", "g", "e", "o", "k", "a", "d", "a", "s", "t", "r">>,
       <<"v", "y", "k", "o", "n", "a", "v", "ch", "a", " ", "s", "l", "u", "zh", "b", "a">> >>

\* a variant that finds the code in no text
NeverContains(text, edrpou) == FALSE

\* _contains_company_by_edrpou(text, edrpou)
contains_company_by_edrpou(text, edrpou) == Contains(RemoveSpaces(text), edrpou)

\* a variant that rates every case LOW
AlwaysLow(case_data, company_edrpou) ==
    [threat_level |-> "LOW", company_role |-> "plaintiff",
     is_criminal |-> FALSE, dangerous_plaintiff |-> FALSE, analysis_notes |-> <<>>]

\* analyze_threat(case_data, company_edrpou).  case_data has the keys the
\* function reads: case_type_name, form, plaintiff, defendant (<<>> when the key
\* is missing).  case_category is left out: nothing reads it.
analyze_threat(case_data, company_edrpou) ==
    LET case_form == Lower(OrText(case_data.case_type_name, case_data.form))
        is_criminal == Contains(case_form, CriminalKeyword)
        plaintiff == Lower(case_data.plaintiff)
        defendant == Lower(case_data.defendant)
        company_role ==
            IF plaintiff # <<>> \/ defendant # <<>>
            THEN IF \/ Contains(defendant, company_edrpou)
                    \/ contains_company_by_edrpou(defendant, company_edrpou)
                 THEN "defendant"
                 ELSE IF \/ Contains(plaintiff, company_edrpou)
                         \/ contains_company_by_edrpou(plaintiff, company_edrpou)
                 THEN "plaintiff"
                 ELSE "party"
            ELSE "defendant"
        lowered == /\ plaintiff # <<>> \/ defendant # <<>>
                   /\ company_role = "plaintiff"
                   /\ ~is_criminal
        category_notes ==
            IF is_criminal THEN <<Note("criminal", <<>>)>>
            ELSE IF Contains(case_form, CommercialKeyword) THEN <<Note("commercial", <<>>)>>
            ELSE IF Contains(case_form, AdministrativeKeyword)
                 THEN <<Note("administrative", <<>>)>>
            ELSE IF Contains(case_form, CivilKeyword) THEN <<Note("civil", <<>>)>>
            ELSE <<>>
        matching == {k \in 1..Len(dangerous_plaintiffs_list) :
                        Contains(plaintiff, dangerous_plaintiffs_list[k])}
        dangerous_plaintiff == ~is_criminal /\ matching # {}
        first == CHOOSE k \in matching : \A j \in matching : k <= j
    IN  [threat_level |-> IF dangerous_plaintiff THEN "HIGH"
                          ELSE IF is_criminal THEN "CRITICAL"
                          ELSE IF lowered THEN "LOW"
                          ELSE "MEDIUM",
         company_role |-> company_role,
         is_criminal |-> is_criminal,
         dangerous_plaintiff |-> dangerous_plaintiff,
         analysis_notes |->
             IF dangerous_plaintiff
             THEN Append(category_notes, Note("authority", dangerous_plaintiffs_list[first]))
             ELSE category_notes]

(***************************************************************************)
(* The data the collaborators and the chat interface supply.               *)
(***************************************************************************)
Users == {1, 2}

\* the invocations of run_monitoring_cycle that can be in flight at once: one
\* started by the schedule (main.py:60) and one from the chat (handlers.py:931)
Cycles == {1, 2}

\* EDRPOU codes are sequences of digit values
TrackedCode == <<3, 4>>

\* raw case numbers as they arrive in feed items, and their canonical forms
RawK1 == <<"No", " ", "9", "2", "2", "/", "1", "/", "2", "5", " ">>
RawK2 == <<"3", "7", "0", "/", "4", "/", "2", "5", "-", "c">>
RawBad == <<"x", "/", "1">>
K1 == <<"9", "2", "2", "/", "1", "/", "2", "5">>
K2 == <<"3", "7", "0", "/", "4", "/", "2", "5", "-", "c">>

\* the category texts ("form") of feed items: "Cyviljne", "Kryminaljne"
FormCivil == <<"C", "y", "v", "i", "l", "j", "n", "e">>
FormCriminal == <<"K", "r", "y", "m", "i", "n", "a", "l", "j", "n", "e">>

\* a feed item: caseNumber, number (the upstream id of the case, 0 if absent), form
ItemOfForm(caseNumber, number, form) ==
    [caseNumber |-> caseNumber, number |-> number, form |-> form]

\* a feed item of a civil case
Item(caseNumber, number) == ItemOfForm(caseNumber, number, FormCivil)

\* a feed event: notificationId, type, code (entity code as upstream writes it), items
Event(nid, type, code, its) ==
    [notificationId |-> nid, type |-> type, code |-> code, items |-> its]

\* what the upstream registry may emit in the general specification
SmallEvents ==
    { Event(9, "court", <<0, 3, 4>>, <<Item(RawK1, 0)>>),
      Event(10, "court", <<3, 4>>, <<Item(RawBad, 0), ItemOfForm(RawK2, 7, FormCriminal)>>),
      Event(11, "court", <<3, 4>>, <<Item(RawK1, 0)>>) }

\* further events: one of a company that is not monitored, one without a
\* notificationId
MoreEvents ==
    SmallEvents \cup
    { Event(12, "court", <<5, 5>>, <<Item(RawK1, 0)>>),
      Event(0, "court", <<3, 4>>, <<Item(RawK2, 0)>>) }

\* a history whose ids are out of order, read with the cursor at 100
ExampleFeed ==
    << Event(98, "court", <<3, 4>>, <<Item(RawK1, 1)>>),
       Event(101, "court", <<3, 4>>, <<Item(RawK1, 2)>>),
       Event(99, "court", <<3, 4>>, <<Item(RawK2, 3)>>),
       Event(105, "court", <<3, 4>>, <<Item(RawK2, 4)>>) >>

\* the project-management tool's task list (id, name)
Task(id, name) == [id |-> id, name |-> name]

TaskLists ==
    { <<Task("t1", <<"x", " ">> \o K1 \o <<" ", "x">>), Task("t2", K1 \o <<",">> \o K1)>> }

\* configurations made through the chat interface: the active companies, the
\* configured admin, and per user the subscriptions and the preference
\*   "entity": subscribed to the company, default preference
\*   "entity_all": subscribed to the company, receive-all preference
\*   "case": subscribed to case K1 only;  "entity_case": both subscriptions
\*   "left": both subscriptions, deactivated
Config(comps, admin, p1, p2) ==
    [companies |-> comps, admin |-> admin, profile |-> <<p1, p2>>]

\* one recipient per event
SoloConfigs ==
    { Config({TrackedCode}, 2, "entity", "none"),
      Config({TrackedCode}, 2, "none", "entity_all"),
      Config({TrackedCode}, 0, "entity_case", "none"),
      Config({TrackedCode}, 2, "none", "none"),
      Config({TrackedCode}, 0, "none", "none"),
      Config({}, 2, "entity", "none") }

\* several recipients per event
Configs ==
    SoloConfigs \cup
    { Config({TrackedCode}, 2, "entity", "entity"),
      Config({TrackedCode}, 2, "entity", "entity_all"),
      Config({TrackedCode}, 0, "entity", "case"),
      Config({TrackedCode}, 2, "case", "entity_all"),
      Config({TrackedCode}, 2, "left", "none"),
      Config({TrackedCode}, 0, "left", "entity") }

VARIABLES
    companies,      \* monitored_companies rows with is_active: set of edrpou
    userSubs,       \* user_subscriptions rows with is_active: set of <<user, edrpou>>
    caseSubs,       \* case_subscriptions rows with is_active: set of <<user, case number>>
    userSubsOff,    \* user_subscriptions rows whose is_active is false
    caseSubsOff,    \* case_subscriptions rows whose is_active is false
    receiveAll,     \* users whose user_settings.receive_all_notifications is true
    adminId,        \* settings.admin_ids[0], 0 when none is configured
    wsRows,         \* worksection_cases rows: [id, normalized_case_number, task_id]
    cursor,         \* sync_state value of 'opendatabot_last_notification_id', 0 = no row
    ledger,         \* notifications_sent rows: [id, case_key]
    upstream,       \* events the registry has not emitted yet
    history,        \* the registry's event history, as get_history returns it
    overlap,        \* whether a trigger fires while another cycle is in flight
    runs,           \* number of monitoring cycles started
    pc,             \* per cycle: position in run_monitoring_cycle
    run,            \* per cycle: its ordinal among the cycles started
    last_id,        \* per cycle: check_new_cases local
    max_id,         \* per cycle: check_new_cases local
    ws_case_numbers,\* per cycle: check_new_cases local (index snapshot)
    edrpou_set,     \* per cycle: the active companies read at the start
    items,          \* per cycle: the fetched feed
    work,           \* per cycle: the notifier calls still to make, in loop order
    processed,      \* per cycle: notification ids whose items were processed
    delivered,      \* history: the calls whose send_message succeeded
    failed,         \* history: the calls whose send_message raised
    suppressed,     \* history: the calls that ended at the ledger check
    records,        \* history: the calls of add_notification: [key, run, raised]
    cursorWrites,   \* history: runs that wrote the cursor
    fn_input,       \* the arguments of a direct call of a function of the library
    fn_output,      \* the values the direct calls returned, in order
    odbSubs,        \* opendatabot_subscriptions rows with is_active: [subscription_id, edrpou]
    registrySubs,   \* the subscriptions the registry holds: [id, key]
    setup_companies,\* per cycle: setup_subscriptions local (the active companies read)
    setup_i,        \* per cycle: position of setup_subscriptions in its loop
    createReqs      \* history: the create requests of the cycles: [edrpou, run, ok]

\* the calls of send_message made so far
attempted == delivered \cup failed

dbVars == <<companies, userSubs, caseSubs, receiveAll, adminId, wsRows, cursor, ledger>>
feedVars == <<upstream, history>>
localVars == <<pc, run, last_id, max_id, ws_case_numbers, edrpou_set, items, work, processed>>
histVars == <<delivered, failed, suppressed, records, cursorWrites>>
fnVars == <<fn_input, fn_output>>
offVars == <<userSubsOff, caseSubsOff>>
subVars == <<odbSubs, registrySubs, setup_companies, setup_i, createReqs>>
vars == <<dbVars, offVars, subVars, feedVars, overlap, fnVars, runs, localVars, histVars>>

(***************************************************************************)
(* Repositories (storage/repository.py).                                   *)
(***************************************************************************)
\* WorksectionCaseRepository.get_all_case_numbers: the distinct numbers
get_all_case_numbers == {r.normalized_case_number : r \in wsRows}

\* a variant that adds a row whether or not the pair has one
insert_case(rows, number, task_id) ==
    rows \cup {[id |-> Cardinality(rows) + 1,
                normalized_case_number |-> number, task_id |-> task_id]}

\* WorksectionCaseRepository.upsert_case: one row per (number, task); an
\* existing row is updated in place (its other columns are not modelled), a
\* new row gets the next primary key
upsert_case(rows, number, task_id) ==
    IF \E r \in rows : r.normalized_case_number = number /\ r.task_id = task_id
    THEN rows
    ELSE rows \cup {[id |-> Cardinality(rows) + 1,
                     normalized_case_number |-> number, task_id |-> task_id]}

\* the user_subscriptions table: rows (user_id, edrpou, is_active)
UserSubscriptionRows ==
    {[user_id |-> r[1], edrpou |-> r[2], is_active |-> TRUE] : r \in userSubs}
        \cup {[user_id |-> r[1], edrpou |-> r[2], is_active |-> FALSE] : r \in userSubsOff}

\* the case_subscriptions table: rows (user_id, case_number, is_active)
CaseSubscriptionRows ==
    {[user_id |-> r[1], case_number |-> r[2], is_active |-> TRUE] : r \in caseSubs}
        \cup {[user_id |-> r[1], case_number |-> r[2], is_active |-> FALSE] : r \in caseSubsOff}

\* a variant that does not look at is_active
UsersOfAnyRow(edrpou) ==
    {row.user_id : row \in {r \in UserSubscriptionRows : r.edrpou = edrpou}}

\* UserSubscriptionRepository.get_users_for_edrpou
get_users_for_edrpou(edrpou) ==
    {row.user_id : row \in {r \in UserSubscriptionRows : r.edrpou = edrpou /\ r.is_active}}

\* CaseSubscriptionRepository.get_users_for_case
get_users_for_case(number) ==
    {row.user_id : row \in {r \in CaseSubscriptionRows :
                                r.case_number = number /\ r.is_active}}

\* a variant in which every user receives all notifications
ReceiveAllAlways(u) == TRUE

\* UserSettingsRepository.get_receive_all: False when the user has no settings row
get_receive_all(u) == u \in receiveAll

\* a variant in which the ledger check never finds the key
NeverSent(rows, case_key) == FALSE

\* NotificationRepository.notification_sent
notification_sent(rows, case_key) == \E r \in rows : r.case_key = case_key

\* SyncStateRepository.set_state: the row's value is overwritten
set_state(value) == cursor' = value

\* a variant that stores nothing
AddNothing(rows, case_key) == [raised |-> FALSE, rows |-> rows]

\* NotificationRepository.add_notification: INSERT and commit; case_key is
\* declared unique, so the commit of a second row with the key raises
\* IntegrityError and stores nothing
add_notification(rows, case_key) ==
    IF \E r \in rows : r.case_key = case_key
    THEN [raised |-> TRUE, rows |-> rows]
    ELSE [raised |-> FALSE,
          rows |-> rows \cup {[id |-> Cardinality(rows) + 1, case_key |-> case_key]}]

(***************************************************************************)
(* check_new_cases: the loop over the fetched feed (monitoring.py:125-246).*)
(***************************************************************************)
RECURSIVE SortedSeq(_)
SortedSeq(S) ==
    IF S = {} THEN <<>>
    ELSE LET m == CHOOSE x \in S : \A y \in S : x <= y
         IN  <<m>> \o SortedSeq(S \ {m})

\* the filter of lines 133-140: a court event of an active company
IsTracked(event, comps) ==
    /\ event.type = "court"
    /\ LStrip0(event.code) \in {LStrip0(c) : c \in comps}

\* edrpou_original.get(event_edrpou, event_edrpou)
OriginalEdrpou(event, comps) ==
    IF \E c \in comps : LStrip0(c) = LStrip0(event.code)
    THEN CHOOSE c \in comps : LStrip0(c) = LStrip0(event.code)
    ELSE LStrip0(event.code)

\* lines 142-144, folded over the feed
RECURSIVE TrackMaxId(_, _, _)
TrackMaxId(feed, max, comps) ==
    IF feed = <<>> THEN max
    ELSE LET event == Head(feed)
             nid == event.notificationId
             next == IF /\ IsTracked(event, comps)
                        /\ nid # 0
                        /\ (max = 0 \/ StrGt(nid, max))
                     THEN nid ELSE max
         IN  TrackMaxId(Tail(feed), next, comps)

\* a variant in which no event is skipped as already processed
NeverProcessed(event, last) == FALSE

\* lines 146-148: the event is skipped as already processed
AlreadyProcessed(event, last) ==
    last # 0 /\ StrLeq(event.notificationId, last)

\* a variant whose key does not name the recipient
SharedKey(ci, normalized, target_chat) ==
    LET base == generate_case_key(ci.number, normalized)
    IN  [ns |-> base.ns, id |-> base.id, num |-> base.num, chat |-> 0]

\* TelegramNotifier.send_case_notification, lines 43-48: the per-user key
CaseKey(ci, normalized, target_chat) ==
    LET base == generate_case_key(ci.number, normalized)
    IN  [ns |-> base.ns, id |-> base.id, num |-> base.num, chat |-> target_chat]

\* the second argument of analyze_threat at line 182: the literal 'defendant'
\* (Latin letters)
RoleLiteral == <<"Ld", "Le", "Lf", "Le", "Ln", "Ld", "La", "Ln", "Lt">>

\* lines 168-185: the threat level of a case item; case_data carries the form
\* as case_type_name and no party texts
ThreatLevelOf(ci) ==
    LET case_data == [case_type_name |-> ci.form, form |-> <<>>,
                      plaintiff |-> <<>>, defendant |-> <<>>]
        is_criminal == Contains(ci.form, CriminalFormLiteral)
        threat_analysis == analyze_threat(case_data, RoleLiteral)
    IN  IF is_criminal THEN "CRITICAL" ELSE threat_analysis.threat_level

\* lines 154-246 for one case item: the calls of send_case_notification, in
\* order, each with the chat and the key the notifier derives (notifier.py:36-48).
\* The call without chat_id (the admin fallback) goes to the configured admin;
\* chat = 0 when none is configured.
\* The write of the court case itself (case_repo.upsert_case, line 188) touches
\* no table the notifications depend on and is left out.
ItemCalls(event, ci, comps, known) ==
    LET normalized == normalize_case_number(ci.caseNumber)
        is_in_worksection == normalized \in known
        original_edrpou == OriginalEdrpou(event, comps)
        case_subscribed_users == get_users_for_case(normalized)
        all_users == get_users_for_edrpou(original_edrpou) \cup case_subscribed_users
        target_chat(chat) == IF chat # 0 THEN chat ELSE adminId
        Call(chat) == [nid |-> event.notificationId,
                       number |-> normalized,
                       chat |-> target_chat(chat),
                       case_key |-> CaseKey(ci, normalized, target_chat(chat)),
                       threat_level |-> ThreatLevelOf(ci),
                       is_new_case |-> ~is_in_worksection]
        Wanted(u) == ~(is_in_worksection /\ ~get_receive_all(u)
                         /\ u \notin case_subscribed_users)
        users == SortedSeq({u \in all_users : Wanted(u)})
    IN  IF normalized = <<>> THEN <<>>
        ELSE IF all_users # {} THEN [k \in 1..Len(users) |-> Call(users[k])]
        ELSE IF ~is_in_worksection THEN <<Call(0)>>
        ELSE <<>>

RECURSIVE ItemsCalls(_, _, _, _)
ItemsCalls(event, cis, comps, known) ==
    IF cis = <<>> THEN <<>>
    ELSE ItemCalls(event, Head(cis), comps, known)
           \o ItemsCalls(event, Tail(cis), comps, known)

\* the calls of the whole feed, in feed order
RECURSIVE FeedCalls(_, _, _, _)
FeedCalls(feed, last, comps, known) ==
    IF feed = <<>> THEN <<>>
    ELSE LET event == Head(feed)
             here == IF IsTracked(event, comps) /\ ~AlreadyProcessed(event, last)
                     THEN ItemsCalls(event, event.items, comps, known)
                     ELSE <<>>
         IN  here \o FeedCalls(Tail(feed), last, comps, known)

\* the events whose items are processed (reach line 150)
ProcessedIds(feed, last, comps) ==
    {feed[k].notificationId : k \in {j \in 1..Len(feed) :
        IsTracked(feed[j], comps) /\ ~AlreadyProcessed(feed[j], last)}}

\* send_case_notification line 36: chat_id or self._get_default_chat()
TargetChat(call) == call.chat

KeyOf(call) == call.case_key

(***************************************************************************)
(* Initial states: an empty store apart from what users configured in the  *)
(* chat (tracked company, subscriptions, preference).                      *)
(***************************************************************************)
ConfigInit(cfg) ==
    /\ companies = cfg.companies
    /\ userSubs = {<<u, TrackedCode>> : u \in {v \in Users :
                        cfg.profile[v] \in {"entity", "entity_all", "entity_case"}}}
    /\ caseSubs = {<<u, K1>> : u \in {v \in Users :
                        cfg.profile[v] \in {"case", "entity_case"}}}
    /\ userSubsOff = {<<u, TrackedCode>> : u \in {v \in Users : cfg.profile[v] = "left"}}
    /\ caseSubsOff = {<<u, K1>> : u \in {v \in Users : cfg.profile[v] = "left"}}
    /\ receiveAll = {u \in Users : cfg.profile[u] = "entity_all"}
    /\ adminId = cfg.admin

StoreInit(startCursor, emitted, events) ==
    /\ wsRows = {}
    /\ cursor = startCursor
    /\ ledger = {}
    /\ upstream = events
    /\ history = emitted
    /\ runs = 0
    /\ pc = [c \in Cycles |-> "idle"]
    /\ run = [c \in Cycles |-> 0]
    /\ last_id = [c \in Cycles |-> 0]
    /\ max_id = [c \in Cycles |-> 0]
    /\ ws_case_numbers = [c \in Cycles |-> {}]
    /\ edrpou_set = [c \in Cycles |-> {}]
    /\ items = [c \in Cycles |-> <<>>]
    /\ work = [c \in Cycles |-> <<>>]
    /\ processed = [c \in Cycles |-> {}]
    /\ delivered = {}
    /\ failed = {}
    /\ suppressed = {}
    /\ records = {}
    /\ cursorWrites = {}
    /\ fn_input = <<>>
    /\ fn_output = <<>>
    /\ odbSubs = {}
    /\ registrySubs = {}
    /\ setup_companies = [c \in Cycles |-> <<>>]
    /\ setup_i = [c \in Cycles |-> 0]
    /\ createReqs = {}

\* overlapping cycles, one recipient per event
Init ==
    /\ \E cfg \in SoloConfigs : ConfigInit(cfg)
    /\ overlap = TRUE
    /\ StoreInit(0, <<>>, SmallEvents)

\* cycles one after another, any configuration
InitSeq ==
    /\ \E cfg \in Configs : ConfigInit(cfg)
    /\ overlap = FALSE
    /\ StoreInit(0, <<>>, MoreEvents)

\* cycles one after another; the registry's history is ExampleFeed and the
\* cursor is at 100
InitExample ==
    /\ \E cfg \in Configs : ConfigInit(cfg)
    /\ overlap = FALSE
    /\ StoreInit(100, ExampleFeed, {})

(***************************************************************************)
(* The Known-Cases Index refresh (services/worksection_sync.py).           *)
(***************************************************************************)
RECURSIVE UpsertNumbers(_, _, _)
UpsertNumbers(rows, numbers, task_id) ==
    IF numbers = <<>> THEN rows
    ELSE UpsertNumbers(upsert_case(rows, Head(numbers), task_id), Tail(numbers), task_id)

RECURSIVE SyncTasks(_, _)
SyncTasks(rows, tasks) ==
    IF tasks = <<>> THEN rows
    ELSE SyncTasks(UpsertNumbers(rows, extract_case_numbers(Head(tasks).name),
                                 Head(tasks).id),
                   Tail(tasks))

\* sync_worksection_cases (direct mode), lines 84-108, over one fetched task list
sync_worksection_cases(tasks) ==
    /\ wsRows' = SyncTasks(wsRows, tasks)
    /\ wsRows' # wsRows
    /\ UNCHANGED <<companies, userSubs, caseSubs, receiveAll, adminId, cursor, ledger>>
    /\ UNCHANGED <<feedVars, overlap, offVars, subVars, fnVars, runs, localVars, histVars>>

(***************************************************************************)
(* run_monitoring_cycle / check_new_cases, one action per suspension point.*)
(***************************************************************************)
\* a cycle that is neither waiting to start nor ended
InFlight(c) == pc[c] \notin {"idle", "done", "aborted"}

\* lines 93-117: the reads at the start; no active company ends the cycle
Start(c) ==
    /\ ~InFlight(c)
    /\ \A d \in Cycles \ {c} :
          ~InFlight(d) => run[c] < run[d] \/ (run[c] = run[d] /\ c < d)
    /\ overlap \/ \A d \in Cycles : ~InFlight(d)
    /\ runs < MaxRuns
    /\ runs' = runs + 1
    /\ run' = [run EXCEPT ![c] = runs + 1]
    /\ last_id' = [last_id EXCEPT ![c] = cursor]
    /\ edrpou_set' = [edrpou_set EXCEPT ![c] = companies]
    /\ ws_case_numbers' = [ws_case_numbers EXCEPT ![c] =
                              IF companies = {} THEN {} ELSE get_all_case_numbers]
    /\ max_id' = [max_id EXCEPT ![c] = 0]
    /\ items' = [items EXCEPT ![c] = <<>>]
    /\ work' = [work EXCEPT ![c] = <<>>]
    /\ processed' = [processed EXCEPT ![c] = {}]
    /\ pc' = [pc EXCEPT ![c] = IF companies = {} THEN "done" ELSE "fetch"]
    /\ UNCHANGED <<dbVars, feedVars, overlap, offVars, subVars, fnVars, histVars>>

\* the events the registry may have recorded since the history was last read
RECURSIVE Arrangements(_, _)
Arrangements(events, n) ==
    IF n <= 0 THEN {<<>>}
    ELSE {<<>>} \cup UNION {{<<e>> \o rest : rest \in Arrangements(events \ {e}, n - 1)}
                               : e \in events}

\* lines 119-148: get_history returns the registry's history, grown by `new`
\* since it was last read; the loop's local decisions
Fetch(c, new) ==
    /\ pc[c] = "fetch"
    /\ history' = history \o new
    /\ upstream' = upstream \ {new[k] : k \in 1..Len(new)}
    /\ items' = [items EXCEPT ![c] = history']
    /\ max_id' = [max_id EXCEPT ![c] = TrackMaxId(history', last_id[c], edrpou_set[c])]
    /\ work' = [work EXCEPT ![c] =
                   FeedCalls(history', last_id[c], edrpou_set[c], ws_case_numbers[c])]
    /\ processed' = [processed EXCEPT ![c] =
                        ProcessedIds(history', last_id[c], edrpou_set[c])]
    /\ pc' = [pc EXCEPT ![c] = "loop"]
    /\ UNCHANGED <<dbVars, overlap, offVars, subVars, fnVars, runs, run, last_id, ws_case_numbers, edrpou_set, histVars>>

\* a variant in which the failed fetch still writes the cursor back
FetchFailWritesCursor(c) ==
    /\ pc[c] = "fetch"
    /\ pc' = [pc EXCEPT ![c] = "aborted"]
    /\ set_state(last_id[c])
    /\ cursorWrites' = cursorWrites \cup {run[c]}
    /\ UNCHANGED <<companies, userSubs, caseSubs, receiveAll, adminId, wsRows, ledger>>
    /\ UNCHANGED <<feedVars, overlap, offVars, subVars, fnVars, runs, run, last_id, max_id, ws_case_numbers,
                   edrpou_set, items, work, processed, delivered, failed, suppressed,
                   records>>

\* line 120 raises: the exception leaves check_new_cases and run_monitoring_cycle
FetchFail(c) ==
    /\ pc[c] = "fetch"
    /\ pc' = [pc EXCEPT ![c] = "aborted"]
    /\ UNCHANGED <<dbVars, feedVars, overlap, offVars, subVars, fnVars, runs, run, last_id, max_id, ws_case_numbers,
                   edrpou_set, items, work, processed, histVars>>

\* send_case_notification lines 36-56: no chat, or the key is in the ledger
NotifCheck(c) ==
    /\ pc[c] = "loop"
    /\ work[c] # <<>>
    /\ LET call == Head(work[c])
       IN  IF TargetChat(call) = 0 \/ notification_sent(ledger, KeyOf(call))
           THEN /\ work' = [work EXCEPT ![c] = Tail(work[c])]
                /\ pc' = pc
                /\ suppressed' = IF TargetChat(call) = 0 THEN suppressed
                                  ELSE suppressed \cup
                                         {[key |-> KeyOf(call), run |-> run[c],
                                           nid |-> call.nid, chat |-> TargetChat(call),
                                           number |-> call.number]}
           ELSE /\ work' = work
                /\ pc' = [pc EXCEPT ![c] = "send"]
                /\ suppressed' = suppressed
    /\ UNCHANGED <<dbVars, feedVars, overlap, offVars, subVars, fnVars, runs, run, last_id, max_id, ws_case_numbers,
                   edrpou_set, items, processed, delivered, failed, records,
                   cursorWrites>>

\* what the history variables keep of a call of bot.send_message
Sending(c) ==
    LET call == Head(work[c])
    IN  [key |-> KeyOf(call), run |-> run[c], nid |-> call.nid,
         chat |-> TargetChat(call), number |-> call.number,
         is_new_case |-> call.is_new_case,
         threat_level |-> call.threat_level,
         in_index |-> call.number \in get_all_case_numbers]

\* lines 65-71: bot.send_message returns a message
SendOk(c) ==
    /\ pc[c] = "send"
    /\ delivered' = delivered \cup {Sending(c)}
    /\ pc' = [pc EXCEPT ![c] = "record"]
    /\ UNCHANGED <<dbVars, feedVars, overlap, offVars, subVars, fnVars, runs, run, last_id, max_id, ws_case_numbers,
                   edrpou_set, items, work, processed, failed, suppressed, records,
                   cursorWrites>>

\* a variant in which the failed call is made again
SendFailRetries(c) ==
    /\ pc[c] = "send"
    /\ failed' = failed \cup {Sending(c)}
    /\ pc' = [pc EXCEPT ![c] = "loop"]
    /\ UNCHANGED <<dbVars, feedVars, overlap, offVars, subVars, fnVars, runs, run, last_id, max_id,
                   ws_case_numbers, edrpou_set, items, work, processed, delivered,
                   suppressed, records, cursorWrites>>

\* lines 88-90: bot.send_message raises; the call returns None
SendFail(c) ==
    /\ pc[c] = "send"
    /\ failed' = failed \cup {Sending(c)}
    /\ work' = [work EXCEPT ![c] = Tail(work[c])]
    /\ pc' = [pc EXCEPT ![c] = "loop"]
    /\ UNCHANGED <<dbVars, feedVars, overlap, offVars, subVars, fnVars, runs, run, last_id, max_id, ws_case_numbers,
                   edrpou_set, items, processed, delivered, suppressed, records,
                   cursorWrites>>

\* lines 73-90: add_notification; an exception it raises is caught at line 88
Record(c) ==
    /\ pc[c] = "record"
    /\ LET key == KeyOf(Head(work[c]))
           res == add_notification(ledger, key)
       IN  /\ ledger' = res.rows
           /\ records' = records \cup
                             {[key |-> key, run |-> run[c], raised |-> res.raised]}
    /\ work' = [work EXCEPT ![c] = Tail(work[c])]
    /\ pc' = [pc EXCEPT ![c] = "loop"]
    /\ UNCHANGED <<companies, userSubs, caseSubs, receiveAll, adminId, wsRows, cursor>>
    /\ UNCHANGED <<feedVars, overlap, offVars, subVars, fnVars, runs, run, last_id, max_id, ws_case_numbers,
                   edrpou_set, items, processed, delivered, failed, suppressed, cursorWrites>>

\* lines 248-250: the cursor is written when the maximum differs from last_id
AdvanceCursor(c) ==
    /\ pc[c] = "loop"
    /\ work[c] = <<>>
    /\ IF max_id[c] # 0 /\ max_id[c] # last_id[c]
       THEN /\ set_state(max_id[c])
            /\ cursorWrites' = cursorWrites \cup {run[c]}
       ELSE /\ cursor' = cursor
            /\ cursorWrites' = cursorWrites
    /\ pc' = [pc EXCEPT ![c] = "done"]
    /\ UNCHANGED <<companies, userSubs, caseSubs, receiveAll, adminId, wsRows, ledger>>
    /\ UNCHANGED <<feedVars, overlap, offVars, subVars, fnVars, runs, run, last_id, max_id, ws_case_numbers,
                   edrpou_set, items, work, processed, delivered, failed, suppressed,
                   records>>

Next ==
    \/ \E tasks \in TaskLists : sync_worksection_cases(tasks)
    \/ \E c \in Cycles : Start(c)
    \/ \E c \in Cycles : \E new \in Arrangements(upstream, MaxHist - Len(history)) :
          Fetch(c, new)
    \/ \E c \in Cycles : FetchFail(c)
    \/ \E c \in Cycles : NotifCheck(c)
    \/ \E c \in Cycles : SendOk(c)
    \/ \E c \in Cycles : SendFail(c)
    \/ \E c \in Cycles : Record(c)
    \/ \E c \in Cycles : AdvanceCursor(c)

Spec == Init /\ [][Next]_vars

SpecSeq == InitSeq /\ [][Next]_vars

SpecExample == InitExample /\ [][Next]_vars

(***************************************************************************)
(* Cycles against a persistent store that can fail.                        *)
(***************************************************************************)
\* a call of the store made for the case item or the user of the next notifier
\* call raises (case_repo.upsert_case at line 188, get_users_for_edrpou at 205,
\* get_users_for_case at 208, get_receive_all at 216): no try encloses the
\* loop, so the exception leaves check_new_cases and run_monitoring_cycle
\* (lines 317-319) before the cursor is written
StoreError(c) ==
    /\ pc[c] = "loop"
    /\ work[c] # <<>>
    /\ pc' = [pc EXCEPT ![c] = "aborted"]
    /\ UNCHANGED <<dbVars, feedVars, overlap, offVars, subVars, fnVars, runs, run, last_id, max_id,
                   ws_case_numbers, edrpou_set, items, work, processed, histVars>>

NextStore ==
    \/ Next
    \/ \E c \in Cycles : StoreError(c)

SpecStore == InitSeq /\ [][NextStore]_vars

(***************************************************************************)
(* Refreshes of the Known-Cases Index while the tool's task list changes.  *)
(***************************************************************************)
\* task names: without a case number, with K1, with K1 and K2, with K1 twice
TaskNames ==
    {<<"x">>, <<"x", " ">> \o K1, K1 \o <<",", " ">> \o K2, K1 \o <<" ">> \o K1}

\* the task lists get_all_tasks may return: up to two tasks
FetchedTaskLists ==
    {<<>>}
        \cup {<<Task(i, n)>> : i \in {"t1", "t2"}, n \in TaskNames}
        \cup {<<Task("t1", n), Task("t2", m)>> : n \in TaskNames, m \in TaskNames}

InitSync ==
    /\ ConfigInit(Config({TrackedCode}, 2, "entity", "none"))
    /\ overlap = FALSE
    /\ StoreInit(0, <<>>, {})

\* sync_worksection_cases (direct mode, the default), lines 74-118, with the task
\* list that line 84 fetched; fn_output keeps the list fetched by this call and
\* the one fetched by the call before it
Refresh(tasks) ==
    /\ wsRows' = SyncTasks(wsRows, tasks)
    /\ fn_output' = IF fn_output = <<>> THEN <<tasks>> ELSE <<tasks, fn_output[1]>>
    /\ UNCHANGED <<companies, userSubs, caseSubs, receiveAll, adminId, cursor, ledger>>
    /\ UNCHANGED <<feedVars, overlap, offVars, subVars, fn_input, runs, localVars, histVars>>

NextSync ==
    \/ \E tasks \in FetchedTaskLists : Refresh(tasks)

SpecSync == InitSync /\ [][NextSync]_vars

(***************************************************************************)
(* Direct calls of the library functions on inputs from bounded sets.      *)
(***************************************************************************)
\* category texts: missing, civil, criminal (as upstream writes it and in lower
\* case), the two forms of the literal of threat_analyzer.py:40, and the
\* literal of line 51
CategoryTexts ==
    {<<>>, FormCivil, FormCriminal, Lower(FormCriminal), CriminalKeyword,
     Lower(CriminalKeyword), CivilKeyword}

\* plaintiff texts: missing, a prosecutor's office, a company with the code 34,
\* the code written with a space, a prosecutor's office and the code, the
\* bureau of investigation ("dbr") and the code, an unrelated party
PlaintiffTexts ==
    {<<>>,
     <<"P", "r", "o", "k", "u", "r", "a", "t", "u", "r", "a">>,
     <<"t", "o", "v", " ", "3", "4">>,
     <<"t", "o", "v", " ", "3", " ", "4">>,
     <<"P", "r", "o", "k", "u", "r", "a", "t", "u", "r", "a", " ", "3", "4">>,
     <<"D", "b", "r", " ", "3", "4">>,
     <<"t", "o", "v">>}

DefendantTexts == {<<>>, <<"t", "o", "v", " ", "3", "4">>, <<"t", "o", "v">>}

\* company_edrpou: the code, the literal check_new_cases passes, the empty text
EdrpouTexts == {<<"3", "4">>, RoleLiteral, <<>>}

ClassifyInputs ==
    {[fn |-> "analyze_threat",
      case_data |-> [case_type_name |-> t, form |-> f, plaintiff |-> p, defendant |-> d],
      company_edrpou |-> e] :
        t \in CategoryTexts, f \in {<<>>, FormCriminal}, p \in PlaintiffTexts,
        d \in DefendantTexts, e \in EdrpouTexts}

\* raw case numbers: what may precede a number (nothing, a space, the numero
\* sign, "#", the word "Sprava", a letter, a digit), a number or something like
\* one, and what may follow it
RawPrefixes ==
    {<<>>, <<" ">>, <<"No", " ">>, <<"#">>, <<"S", "p", "r", "a", "v", "a", " ">>,
     <<"x">>, <<"1">>}

RawCores ==
    {K1, K2, RawBad,
     <<"9", "2", "/", "1", "/", "2", "5">>,
     <<"1", "2", "3", "4", "5", "/", "1", "/", "2", "5">>,
     <<"9", "2", "2", "/", "1", "/", "2">>,
     <<"9", "2", "2", "/", "1", "/", "2", "0", "2", "5">>,
     <<"9", "2", "2", "/", "/", "2", "5">>}

RawSuffixes ==
    {<<>>, <<" ">>, <<"-", "c">>, <<"-", "x">>, <<"/", "7">>, <<"5">>}

NormalizeInputs ==
    {[fn |-> "normalize_case_number", raw |-> a \o b \o c] :
        a \in RawPrefixes, b \in RawCores, c \in RawSuffixes}
    \cup {[fn |-> "normalize_case_number", raw |-> <<>>]}

\* texts to extract from: three segments (nothing, 922/1234/25, 370/4268/25, the
\* former with a letter suffix, something that is no number) joined by nothing,
\* a space or a comma
TokenA == <<"9", "2", "2", "/", "1", "2", "3", "4", "/", "2", "5">>
TokenB == <<"3", "7", "0", "/", "4", "2", "6", "8", "/", "2", "5">>

TextSegments == {<<>>, TokenA, TokenB, TokenA \o <<"-", "c">>, RawBad}

TextSeparators == {<<>>, <<" ">>, <<",">>}

ExtractInputs ==
    {[fn |-> "extract_case_numbers", text |-> a \o sep \o b \o sep \o c] :
        a \in TextSegments, b \in TextSegments, c \in TextSegments,
        sep \in TextSeparators}

FnInputs == ClassifyInputs \cup NormalizeInputs \cup ExtractInputs

InitCalls ==
    /\ ConfigInit(Config({TrackedCode}, 2, "entity", "none"))
    /\ overlap = FALSE
    /\ wsRows = {}
    /\ cursor = 0
    /\ ledger = {}
    /\ upstream = {}
    /\ history = <<>>
    /\ runs = 0
    /\ pc = [c \in Cycles |-> "idle"]
    /\ run = [c \in Cycles |-> 0]
    /\ last_id = [c \in Cycles |-> 0]
    /\ max_id = [c \in Cycles |-> 0]
    /\ ws_case_numbers = [c \in Cycles |-> {}]
    /\ edrpou_set = [c \in Cycles |-> {}]
    /\ items = [c \in Cycles |-> <<>>]
    /\ work = [c \in Cycles |-> <<>>]
    /\ processed = [c \in Cycles |-> {}]
    /\ delivered = {}
    /\ failed = {}
    /\ suppressed = {}
    /\ records = {}
    /\ cursorWrites = {}
    /\ fn_input \in FnInputs
    /\ fn_output = <<>>
    /\ odbSubs = {}
    /\ registrySubs = {}
    /\ setup_companies = [c \in Cycles |-> <<>>]
    /\ setup_i = [c \in Cycles |-> 0]
    /\ createReqs = {}

\* analyze_threat(case_data, company_edrpou) is called and returns
Classify ==
    /\ fn_input.fn = "analyze_threat"
    /\ fn_output = <<>>
    /\ fn_output' = <<analyze_threat(fn_input.case_data, fn_input.company_edrpou)>>
    /\ UNCHANGED <<dbVars, feedVars, overlap, offVars, subVars, fn_input, runs, localVars, histVars>>

\* normalize_case_number is called on the raw text and then on what it returned
Normalize ==
    /\ fn_input.fn = "normalize_case_number"
    /\ Len(fn_output) < 2
    /\ fn_output' = Append(fn_output,
                           normalize_case_number(IF fn_output = <<>> THEN fn_input.raw
                                                 ELSE fn_output[1]))
    /\ UNCHANGED <<dbVars, feedVars, overlap, offVars, subVars, fn_input, runs, localVars, histVars>>

\* extract_case_numbers(text) is called and returns
Extract ==
    /\ fn_input.fn = "extract_case_numbers"
    /\ fn_output = <<>>
    /\ fn_output' = <<extract_case_numbers(fn_input.text)>>
    /\ UNCHANGED <<dbVars, feedVars, overlap, offVars, subVars, fn_input, runs, localVars, histVars>>

NextCalls ==
    \/ Classify
    \/ Normalize
    \/ Extract

SpecCalls == InitCalls /\ [][NextCalls]_vars

(***************************************************************************)
(* Properties.                                                             *)
(***************************************************************************)
\* the calls send_case_notification would make for the feed a cycle fetched if
\* no event were skipped as already processed
EligibleKeys(c) ==
    LET calls == FeedCalls(items[c], 0, edrpou_set[c], ws_case_numbers[c])
    IN  {calls[k].case_key : k \in 1..Len(calls)}

\* C1: whatever the interleaving of the monitoring cycles, the message for one
\* per-recipient dedup key is delivered by at most one of them.
C1_SentAtMostOnce ==
    \A d1, d2 \in delivered : d1.key = d2.key => d1.run = d2.run

\* C2: when the send for a key failed in one cycle and a later cycle has run
\* to its end on a feed that still holds the event, with the recipient still
\* eligible and nothing for the key in the ledger, that later cycle has tried
\* the send again.
C2_FailedSendRetried ==
    \A f \in failed : \A c \in Cycles :
        ( /\ pc[c] = "done"
          /\ run[c] > f.run
          /\ f.key \in EligibleKeys(c)
          /\ ~\E row \in ledger : row.case_key = f.key )
        => \E a \in attempted : a.key = f.key /\ a.run = run[c]

\* C3: no write to the cursor stores a value that is below the value stored
\* before it, whether the ids are compared as numbers or as strings.
C3_CursorNeverDecreases ==
    [][~(cursor' < cursor /\ SeqLess(IdStr(cursor'), IdStr(cursor)))]_vars

\* C4: a cycle that starts with the cursor at 100 and reads the feed
\* [98, 101, 99, 105] leaves the cursor at 105 and processes neither event 98
\* nor event 99.
C4_ExampleCursor ==
    \A c \in Cycles :
        ( /\ pc[c] = "done"
          /\ runs = 1
          /\ last_id[c] = 100
          /\ items[c] = ExampleFeed )
        => /\ cursor = 105
           /\ 98 \notin processed[c]
           /\ 99 \notin processed[c]

\* C5 as amended: every ledger entry has a successful send for its key, no key
\* has two entries, and every successful send has the entry for its key once
\* the call that made the send has gone past its add_notification.
C5_LedgerMatchesSends ==
    /\ \A row \in ledger : \E d \in delivered : d.key = row.case_key
    /\ \A r1, r2 \in ledger : r1.case_key = r2.case_key => r1 = r2
    /\ \A d \in delivered :
          \/ \E row \in ledger : row.case_key = d.key
          \/ \E c \in Cycles : /\ pc[c] = "record"
                               /\ run[c] = d.run
                               /\ KeyOf(Head(work[c])) = d.key

\* C5 as written: in every reachable state each successful send has exactly
\* one ledger entry with its key, and every entry has a successful send.
C5_LedgerMatchesSendsAlways ==
    /\ \A row \in ledger : \E d \in delivered : d.key = row.case_key
    /\ \A d \in delivered :
          Cardinality({row \in ledger : row.case_key = d.key}) = 1

\* a send that succeeded and was recorded, beside a send that failed and has
\* no entry, with no call in progress
C5_Witness ==
    /\ \A c \in Cycles : pc[c] \notin {"send", "record"}
    /\ \E d \in delivered : \E row \in ledger : row.case_key = d.key
    /\ \E f \in failed : ~\E row \in ledger : row.case_key = f.key

\* C6: whenever add_notification is called, also for a key that is already
\* stored, it does not raise and exactly one entry with the key is stored.
C6_DuplicateRecordSucceeds ==
    \A c \in Cycles :
        pc[c] = "record" =>
            LET key == KeyOf(Head(work[c]))
                res == add_notification(ledger, key)
            IN  /\ ~res.raised
                /\ Cardinality({row \in res.rows : row.case_key = key}) = 1

\* C7: when send_case_notification is called for a key that is in the ledger,
\* the call ends at the check: no message is sent, none is attempted, and the
\* ledger is left as it was.
C7_DuplicateStopsBeforeSend ==
    [][\A c \in Cycles :
          ( /\ pc[c] = "loop"
            /\ work[c] # <<>>
            /\ \E row \in ledger : row.case_key = Head(work[c]).case_key
            /\ <<pc[c], work[c]>>' # <<pc[c], work[c]>> )
          => /\ pc'[c] = "loop"
             /\ work'[c] = Tail(work[c])
             /\ delivered' = delivered
             /\ failed' = failed
             /\ ledger' = ledger]_vars

\* a call that ended at the ledger check for a key delivered before
C7_Witness ==
    \E s \in suppressed : \E d \in delivered :
        /\ d.key = s.key
        /\ \E row \in ledger : row.case_key = s.key
        /\ ~\E a \in attempted : a.key = s.key /\ a.run = s.run

\* C8: when a cycle has run to its end and either advanced the cursor or had
\* no failed send, the next cycle, run to its end on the same feed, attempts
\* no send, records nothing in the ledger and does not write the cursor.
C8_RerunIsIdle ==
    \A c, d \in Cycles :
        ( /\ pc[d] = "done" /\ pc[c] = "done"
          /\ run[d] >= 1 /\ run[c] = run[d] + 1
          /\ items[c] = items[d]
          /\ run[d] \in cursorWrites \/ ~\E f \in failed : f.run = run[d] )
        => /\ ~\E a \in attempted : a.run = run[c]
           /\ ~\E r \in records : r.run = run[c]
           /\ run[c] \notin cursorWrites
           /\ cursor = last_id[c]

\* a second run on the feed of a first run that delivered, failed and
\* advanced the cursor
C8_Witness ==
    \E c, d \in Cycles :
        /\ pc[d] = "done" /\ pc[c] = "done"
        /\ run[d] = 1 /\ run[c] = 2
        /\ items[c] = items[d]
        /\ run[d] \in cursorWrites
        /\ \E x \in delivered : x.run = run[d]
        /\ \E f \in failed : f.run = run[d]

\* C9: a cycle whose fetch of the feed failed has ended as aborted; it has
\* attempted no send, written no ledger entry and not written the cursor.
C9_FetchFailureAborts ==
    \A c \in Cycles :
        pc[c] = "aborted" =>
            /\ ~\E a \in attempted : a.run = run[c]
            /\ ~\E r \in records : r.run = run[c]
            /\ run[c] \notin cursorWrites
            /\ work[c] = <<>>

\* the second cycle is aborted while the registry holds an event beyond the
\* cursor the first cycle left
C9_Witness ==
    \E c \in Cycles :
        /\ pc[c] = "aborted"
        /\ run[c] = 2
        /\ last_id[c] # 0
        /\ cursor = last_id[c]
        /\ \E e \in upstream : IsTracked(e, companies) /\ ~AlreadyProcessed(e, cursor)

\* C10 as amended: no send is attempted for a case number that the cycle read
\* in the index at its start to a recipient who neither receives all nor is
\* subscribed to that case number.
C10_OptOutBySnapshot ==
    \A a \in attempted :
        ~a.is_new_case =>
            \/ a.key.chat \in receiveAll
            \/ <<a.key.chat, a.number>> \in caseSubs

\* C10 as written: no message is delivered for a case number that is in the
\* index when the message is sent to a recipient who neither receives all nor
\* is subscribed to that case number.
C10_OptOutByIndex ==
    \A d \in delivered :
        d.in_index =>
            \/ d.key.chat \in receiveAll
            \/ <<d.key.chat, d.number>> \in caseSubs

\* a finished cycle that processed an event of case K1, known to it, and
\* attempted nothing for user 1, who follows the company with the default
\* preference
C10_Witness ==
    \E c \in Cycles :
        /\ pc[c] = "done"
        /\ K1 \in ws_case_numbers[c]
        /\ \E k \in 1..Len(items[c]) :
              /\ items[c][k].notificationId \in processed[c]
              /\ IsTracked(items[c][k], edrpou_set[c])
              /\ \E j \in 1..Len(items[c][k].items) :
                    normalize_case_number(items[c][k].items[j].caseNumber) = K1
        /\ <<1, TrackedCode>> \in userSubs
        /\ 1 \notin receiveAll
        /\ <<1, K1>> \notin caseSubs
        /\ ~\E a \in attempted : a.run = run[c] /\ a.key.chat = 1

\* the case numbers of the items of an event
EventNumbers(event) ==
    {normalize_case_number(event.items[j].caseNumber) : j \in 1..Len(event.items)}
        \ {<<>>}

\* C11: when a cycle has run to its end, for every event it processed and every
\* user with a Case Subscription to a case number of the event, the cycle has
\* attempted to send that event to that user.
C11_CaseSubscriberAlwaysSent ==
    \A c \in Cycles :
        pc[c] = "done" =>
            \A k \in 1..Len(items[c]) :
                items[c][k].notificationId \in processed[c] =>
                    \A n \in EventNumbers(items[c][k]) :
                        \A u \in get_users_for_case(n) :
                            \E a \in attempted :
                                /\ a.run = run[c]
                                /\ a.nid = items[c][k].notificationId
                                /\ a.chat = u
                                /\ a.number = n

\* the example of one subscriber: the feed a cycle fetched is one court event,
\* not skipped, of the tracked company, with one civil case item whose number is
\* not in the index snapshot, and user u is the only subscriber of the company,
\* has the default preference, and nobody follows the case
OneSubscriberExample(c, u) ==
    /\ companies = {TrackedCode}
    /\ edrpou_set[c] = {TrackedCode}
    /\ Len(items[c]) = 1
    /\ items[c][1].type = "court"
    /\ items[c][1].notificationId # 0
    /\ LStrip0(items[c][1].code) = LStrip0(TrackedCode)
    /\ ~(last_id[c] # 0 /\ StrLeq(items[c][1].notificationId, last_id[c]))
    /\ Len(items[c][1].items) = 1
    /\ items[c][1].items[1].form = FormCivil
    /\ normalize_case_number(items[c][1].items[1].caseNumber) # <<>>
    /\ normalize_case_number(items[c][1].items[1].caseNumber) \notin ws_case_numbers[c]
    /\ {v \in Users : <<v, TrackedCode>> \in userSubs} = {u}
    /\ caseSubs = {}
    /\ u \notin receiveAll

\* C12: in the one-subscriber example, once the cycle has run to its end (and
\* before another one starts), it has made
\* exactly one send, to the subscriber, for the event, with tier MEDIUM; when the
\* send succeeded it wrote exactly one ledger row, whose key ends with the
\* subscriber's id; and the cursor is the event's id.
C12_OneSubscriberExample ==
    \A c \in Cycles : \A u \in Users :
        (pc[c] = "done" /\ run[c] = runs /\ OneSubscriberExample(c, u)) =>
            /\ Cardinality({a \in attempted : a.run = run[c]}) = 1
            /\ \A a \in attempted :
                  a.run = run[c] =>
                      /\ a.chat = u
                      /\ a.nid = items[c][1].notificationId
                      /\ a.threat_level = "MEDIUM"
            /\ (\E d \in delivered : d.run = run[c]) =>
                  /\ Cardinality({r \in records : r.run = run[c]}) = 1
                  /\ \A r \in records :
                        r.run = run[c] => ~r.raised /\ r.key.chat = u
                  /\ Cardinality(ledger) = 1
                  /\ \A row \in ledger : row.case_key.chat = u
            /\ cursor = items[c][1].notificationId

\* the example has run with an event whose code differs from the tracked code
\* by a leading zero, and the message was delivered
C12_Witness ==
    \E c \in Cycles : \E u \in Users :
        /\ pc[c] = "done"
        /\ OneSubscriberExample(c, u)
        /\ items[c][1].code # TrackedCode
        /\ \E d \in delivered : d.run = run[c] /\ d.chat = u /\ d.threat_level = "MEDIUM"
        /\ Cardinality(ledger) = 1
        /\ cursor = items[c][1].notificationId

\* the plaintiff text of a call of analyze_threat holds a configured
\* dangerous-plaintiff keyword
HasDangerousPlaintiff(case_data) ==
    \E k \in 1..Len(dangerous_plaintiffs_list) :
        Contains(Lower(case_data.plaintiff), dangerous_plaintiffs_list[k])

\* the category text of a call of analyze_threat holds the word "kryminaljne",
\* in any case
HasCriminalCategory(case_data) ==
    Contains(Lower(OrText(case_data.case_type_name, case_data.form)), Lower(FormCriminal))

\* C13: a call of analyze_threat returns CRITICAL when the category text holds the
\* criminal keyword in any case, otherwise HIGH when the plaintiff text holds a
\* dangerous-plaintiff keyword, otherwise LOW when the role it determined is
\* plaintiff, otherwise MEDIUM.
C13_ClassifyPrecedence ==
    (fn_input.fn = "analyze_threat" /\ fn_output # <<>>) =>
        fn_output[1].threat_level =
            IF HasCriminalCategory(fn_input.case_data) THEN "CRITICAL"
            ELSE IF HasDangerousPlaintiff(fn_input.case_data) THEN "HIGH"
            ELSE IF fn_output[1].company_role = "plaintiff" THEN "LOW"
            ELSE "MEDIUM"

\* the code appears in a party text as analyze_threat looks for it: in the
\* lower-cased text, or in that text with the spaces removed
CodeAppearsIn(text, edrpou) ==
    \/ Contains(Lower(text), edrpou)
    \/ Contains(RemoveSpaces(Lower(text)), edrpou)

\* a call of analyze_threat has returned for a category that is not criminal,
\* with the code in the plaintiff text and not in the defendant text
PlaintiffOnlyCall ==
    /\ fn_input.fn = "analyze_threat"
    /\ fn_output # <<>>
    /\ ~HasCriminalCategory(fn_input.case_data)
    /\ CodeAppearsIn(fn_input.case_data.plaintiff, fn_input.company_edrpou)
    /\ ~CodeAppearsIn(fn_input.case_data.defendant, fn_input.company_edrpou)

C15_NormalizeIdempotent ==
    ( /\ fn_input.fn = "normalize_case_number"
      /\ Len(fn_output) = 2
      /\ fn_output[1] # <<>> )
    => fn_output[2] = fn_output[1]

\* a raw text that is not in canonical form was normalized to a token, and the
\* call on the token returned
C15_Witness ==
    /\ fn_input.fn = "normalize_case_number"
    /\ Len(fn_output) = 2
    /\ fn_output[1] # <<>>
    /\ fn_output[1] # fn_input.raw
    /\ fn_output[2] = fn_output[1]

\* the index in the matches of a text of the first match that equals token
FirstMatch(matches, token) ==
    CHOOSE k \in 1..Len(matches) :
        matches[k] = token /\ \A j \in 1..(k - 1) : matches[j] # token

\* C16: what extract_case_numbers returned holds every token matched in the text,
\* nothing else, none of them twice, in the order of their first matches; for a
\* text that holds 922/1234/25, 370/4268/25 and 922/1234/25 again it is the
\* former two in that order.
C16_ExtractDistinctInOrder ==
    (fn_input.fn = "extract_case_numbers" /\ fn_output # <<>>) =>
        LET result == fn_output[1]
            matches == FindAll(fn_input.text, 1)
        IN  /\ {result[k] : k \in 1..Len(result)} = {matches[k] : k \in 1..Len(matches)}
            /\ \A i, j \in 1..Len(result) : i # j => result[i] # result[j]
            /\ \A i, j \in 1..Len(result) :
                  i < j => FirstMatch(matches, result[i]) < FirstMatch(matches, result[j])
            /\ fn_input.text = TokenA \o <<" ">> \o TokenB \o <<" ">> \o TokenA
                  => result = <<TokenA, TokenB>>

\* the call on "922/1234/25 370/4268/25 922/1234/25" has returned the two tokens
C16_Witness ==
    /\ fn_input.fn = "extract_case_numbers"
    /\ fn_input.text = TokenA \o <<" ">> \o TokenB \o <<" ">> \o TokenA
    /\ Len(FindAll(fn_input.text, 1)) = 3
    /\ fn_output = << <<TokenA, TokenB>> >>

\* C17: when a cycle has run to its end (and before another one starts), for
\* every event of its feed that the filter skipped and whose id is above the
\* cursor the cycle started from, the cursor is at least that id, whether ids are
\* compared as numbers or as strings.
C17_CursorPassesSkippedEvents ==
    \A c \in Cycles :
        (pc[c] = "done" /\ run[c] = runs) =>
            \A k \in 1..Len(items[c]) :
                LET event == items[c][k]
                    nid == event.notificationId
                IN  ( /\ ~IsTracked(event, edrpou_set[c])
                      /\ nid # 0
                      /\ nid > last_id[c]
                      /\ SeqLess(IdStr(last_id[c]), IdStr(nid)) )
                    => (cursor >= nid \/ ~SeqLess(IdStr(cursor), IdStr(nid)))

\* C18: two calls of the notifier for feed events with different ids and the
\* same recipient never have the same dedup key.
C18_KeyEncodesEvent ==
    \A a, b \in attempted \cup suppressed :
        (a.nid # 0 /\ b.nid # 0 /\ a.nid # b.nid /\ a.chat = b.chat) => a.key # b.key

\* C19: every call of the notifier uses a key that ends with its own recipient,
\* and a call that ended at the ledger check did so on a row that a delivery to
\* the same recipient left there: a row recorded for one recipient suppresses no
\* call for another.
C19_DedupPerRecipient ==
    /\ \A a \in attempted \cup suppressed : a.key.chat = a.chat
    /\ \A s \in suppressed :
          /\ \E row \in ledger : row.case_key = s.key
          /\ \A row \in ledger : row.case_key = s.key => row.case_key.chat = s.chat
          /\ \E d \in delivered : d.key = s.key /\ d.chat = s.chat
          /\ \A d \in delivered : d.chat # s.chat => d.key # s.key

\* one event was delivered to two recipients in one cycle, the second after the
\* row of the first was in the ledger, and both rows are recorded
C19_Witness ==
    \E d1, d2 \in delivered :
        /\ d1.run = d2.run
        /\ d1.nid = d2.nid
        /\ d1.number = d2.number
        /\ d1.chat # d2.chat
        /\ d1.key # d2.key
        /\ \E r1, r2 \in ledger : r1.case_key = d1.key /\ r2.case_key = d2.key

\* the chats the notifier was called for in cycle c for event nid and case number
CalledChats(c, nid, number) ==
    {a.chat : a \in {b \in attempted \cup suppressed :
                        b.run = run[c] /\ b.nid = nid /\ b.number = number}}

\* the users with an active row for the company of the event or for the case
ActiveSubscribers(edrpou, number) ==
    {u \in Users : <<u, edrpou>> \in userSubs \/ <<u, number>> \in caseSubs}

\* C20: when a cycle has run to its end (and before another one starts), for
\* every case item of every event it processed: if some user has an active
\* subscription to the company or to the case, the notifier was called for such
\* users only, and for each of them that the filter of known cases does not
\* remove; if none has, it was called for the configured admin alone when the
\* number is not in the index the cycle read, and for nobody when it is.
C20_RecipientsAreActiveUnion ==
    \A c \in Cycles :
        (pc[c] = "done" /\ run[c] = runs) =>
            \A k \in 1..Len(items[c]) :
                items[c][k].notificationId \in processed[c] =>
                    \A n \in EventNumbers(items[c][k]) :
                        LET event == items[c][k]
                            union == ActiveSubscribers(OriginalEdrpou(event, edrpou_set[c]), n)
                            known == n \in ws_case_numbers[c]
                            called == CalledChats(c, event.notificationId, n)
                        IN  IF union # {}
                            THEN /\ called \subseteq union
                                 /\ \A u \in union :
                                       (~known \/ u \in receiveAll \/ <<u, n>> \in caseSubs)
                                           => u \in called
                            ELSE called = IF ~known /\ adminId # 0 THEN {adminId} ELSE {}

\* a user's subscriptions are all deactivated, nobody else is subscribed, and
\* the cycle has sent the case to the admin and not to that user
C20_Witness ==
    \E c \in Cycles : \E a \in attempted :
        /\ pc[c] = "done"
        /\ run[c] = runs
        /\ a.run = run[c]
        /\ userSubsOff # {}
        /\ caseSubsOff # {}
        /\ ActiveSubscribers(TrackedCode, a.number) = {}
        /\ a.chat = adminId
        /\ \A u \in Users : <<u, TrackedCode>> \in userSubsOff =>
              u \notin CalledChats(c, a.nid, a.number)

\* C21: when a cycle has run to its end, for every court event of its feed that
\* is above the cursor the cycle started from, whatever company it belongs to,
\* and every user with an active Case Subscription to a case number of the
\* event, the cycle has called the notifier for that event and that user.
C21_CaseSubscriptionAnyEntity ==
    \A c \in Cycles :
        pc[c] = "done" =>
            \A k \in 1..Len(items[c]) :
                LET event == items[c][k]
                IN  (event.type = "court" /\ ~AlreadyProcessed(event, last_id[c])) =>
                        \A n \in EventNumbers(event) :
                            \A u \in Users :
                                <<u, n>> \in caseSubs =>
                                    \E a \in attempted \cup suppressed :
                                        /\ a.run = run[c]
                                        /\ a.nid = event.notificationId
                                        /\ a.chat = u

\* the calls of the notifier a cycle has to make for the feed it fetched
CallsOf(c) == FeedCalls(items[c], last_id[c], edrpou_set[c], ws_case_numbers[c])

\* C22: the step in which a send fails drops that call alone, leaves the
\* remaining calls of the cycle to be made, and writes nothing to the ledger; a
\* cycle in which a send failed is not aborted, and when it has run to its end
\* every call of its feed was made; a key is in the ledger only when a send for
\* it succeeded.
C22_SendFailureIsIsolated ==
    /\ [][\A c \in Cycles :
            (pc[c] = "send" /\ failed' # failed) =>
                /\ work'[c] = Tail(work[c])
                /\ pc'[c] = "loop"
                /\ ledger' = ledger
                /\ records' = records]_vars
    /\ [](\A c \in Cycles :
            /\ (\E f \in failed : f.run = run[c]) => pc[c] # "aborted"
            /\ pc[c] = "done" =>
                  LET calls == CallsOf(c)
                  IN  \A k \in 1..Len(calls) :
                          calls[k].chat # 0 =>
                              \E a \in attempted \cup suppressed :
                                  /\ a.run = run[c]
                                  /\ a.nid = calls[k].nid
                                  /\ a.number = calls[k].number
                                  /\ a.chat = calls[k].chat)
    /\ [](\A f \in failed :
            (\E row \in ledger : row.case_key = f.key)
                => \E d \in delivered : d.key = f.key)

\* a cycle has run to its end in which the send of an event to the first
\* recipient failed and the send to the second one succeeded, as did a send for
\* a later event of the feed; the ledger has no row for the failed send
C22_Witness ==
    \E c \in Cycles : \E f \in failed : \E d1, d2 \in delivered :
        /\ pc[c] = "done"
        /\ f.run = run[c] /\ d1.run = run[c] /\ d2.run = run[c]
        /\ d1.nid = f.nid /\ d1.number = f.number /\ f.chat < d1.chat
        /\ Len(items[c]) = 2
        /\ items[c][1].notificationId = f.nid
        /\ items[c][2].notificationId = d2.nid
        /\ d2.nid # f.nid
        /\ ~\E row \in ledger : row.case_key = f.key

\* C23: a cycle that has fetched a feed with events to process is never aborted,
\* and once it has stopped every event it had to process has had its calls made
\* and the cursor is at the highest id it tracked.
C23_StoreFailureIsIsolated ==
    \A c \in Cycles :
        (run[c] = runs /\ items[c] # <<>> /\ pc[c] \in {"done", "aborted"}) =>
            /\ pc[c] = "done"
            /\ work[c] = <<>>
            /\ max_id[c] # 0 => cursor = max_id[c]

\* the case numbers a refresh from a task list stores
NumbersOfTasks(tasks) == {r.normalized_case_number : r \in SyncTasks({}, tasks)}

\* C24: every cycle refreshes the index before it polls: while a cycle fetches
\* and checks events, the index it has read holds the case numbers of the
\* tool's task list.
C24_RefreshBeforePoll ==
    \A c \in Cycles :
        pc[c] \in {"fetch", "loop", "send", "record"} =>
            \E tasks \in TaskLists : NumbersOfTasks(tasks) \subseteq ws_case_numbers[c]

\* C25: when a refresh has completed, the index holds exactly the case numbers
\* extracted from the names of the tasks that the refresh fetched.
C25_IndexReflectsTaskList ==
    fn_output # <<>> => get_all_case_numbers = NumbersOfTasks(fn_output[1])

\* C26: after any refreshes the store has at most one row for a pair of case
\* number and task id, and a refresh that fetched the same task list as the
\* refresh before it leaves the rows as they were.
C26_RefreshIsIdempotent ==
    /\ [](\A r1, r2 \in wsRows :
            (r1.normalized_case_number = r2.normalized_case_number
               /\ r1.task_id = r2.task_id) => r1 = r2)
    /\ [][(fn_output # <<>> /\ Len(fn_output') = 2 /\ fn_output'[1] = fn_output[1])
             => wsRows' = wsRows]_vars

\* two refreshes in a row have fetched the same list of two tasks that name the
\* same case, one of them twice, and each pair has its row
C26_Witness ==
    /\ Len(fn_output) = 2
    /\ fn_output[1] = fn_output[2]
    /\ Len(fn_output[1]) = 2
    /\ fn_output[1][2].name = K1 \o <<" ">> \o K1
    /\ Cardinality(wsRows) = Cardinality({<<r.normalized_case_number, r.task_id>> : r \in wsRows})
    /\ \E r1, r2 \in wsRows :
          /\ r1.normalized_case_number = K1 /\ r2.normalized_case_number = K1
          /\ r1.task_id = "t1" /\ r2.task_id = "t2"

\* ---------------------------------------------------------------------
\* The whole of run_monitoring_cycle: setup_subscriptions, then
\* check_new_cases; and the chat's addition of a company.
\* ---------------------------------------------------------------------

\* a company the chat may add; its code carries a leading zero
ZeroCode == <<0, 5, 5>>
NewCodes == {ZeroCode}
SetupEvents == {Event(11, "court", TrackedCode, <<Item(RawK1, 0)>>)}

\* the orders in which a query may return the rows of a set
Orderings(S) ==
    {seq \in [1..Cardinality(S) -> S] : \A i, j \in 1..Cardinality(S) : seq[i] = seq[j] => i = j}

\* POST /subscriptions: the registry stores the key without leading zeros
RegistryCreate(subs, key) ==
    subs \cup {[id |-> Cardinality(subs) + 1, key |-> LStrip0(key)]}

\* GET /subscriptions?subscriptionKey=key
get_subscriptions(key) == {s \in registrySubs : s.key = key}

\* SubscriptionRepository.get_subscriptions_by_edrpou
get_subscriptions_by_edrpou(edrpou) == {s \in odbSubs : s.edrpou = edrpou}

\* SubscriptionRepository.add_subscription
add_subscription(rows, subscription_id, edrpou) ==
    rows \cup {[subscription_id |-> subscription_id, edrpou |-> edrpou]}

InitSetup ==
    /\ ConfigInit(Config({TrackedCode}, 2, "entity", "none"))
    /\ overlap = TRUE
    /\ StoreInit(0, <<>>, SetupEvents)

\* process_company_name: the company and the user's subscription are stored,
\* then the registry is asked for a subscription unless it lists one for the
\* key; an error of the registry is logged (ok = FALSE)
process_company_name(u, edrpou, ok) ==
    /\ edrpou \notin companies
    /\ companies' = companies \cup {edrpou}
    /\ userSubs' = userSubs \cup {<<u, edrpou>>}
    /\ registrySubs' =
          IF ok /\ get_subscriptions(LStrip0(edrpou)) = {}
          THEN RegistryCreate(registrySubs, LStrip0(edrpou))
          ELSE registrySubs
    /\ UNCHANGED <<caseSubs, receiveAll, adminId, wsRows, cursor, ledger>>
    /\ UNCHANGED <<odbSubs, setup_companies, setup_i, createReqs>>
    /\ UNCHANGED <<feedVars, overlap, offVars, fnVars, runs, localVars, histVars>>

\* run_monitoring_cycle begins: setup_subscriptions reads the active companies
StartCycle(c, list) ==
    /\ ~InFlight(c)
    /\ \A d \in Cycles \ {c} :
          ~InFlight(d) => run[c] < run[d] \/ (run[c] = run[d] /\ c < d)
    /\ overlap \/ \A d \in Cycles : ~InFlight(d)
    /\ runs < MaxRuns
    /\ runs' = runs + 1
    /\ run' = [run EXCEPT ![c] = runs + 1]
    /\ setup_companies' = [setup_companies EXCEPT ![c] = list]
    /\ setup_i' = [setup_i EXCEPT ![c] = 1]
    /\ max_id' = [max_id EXCEPT ![c] = 0]
    /\ items' = [items EXCEPT ![c] = <<>>]
    /\ work' = [work EXCEPT ![c] = <<>>]
    /\ processed' = [processed EXCEPT ![c] = {}]
    /\ pc' = [pc EXCEPT ![c] = "setup"]
    /\ UNCHANGED <<dbVars, feedVars, overlap, offVars, fnVars, histVars>>
    /\ UNCHANGED <<odbSubs, registrySubs, createReqs, last_id, ws_case_numbers, edrpou_set>>

\* the company the loop of setup_subscriptions is at
SetupCompany(c) == setup_companies[c][setup_i[c]]

\* lines 43-51: the stored subscriptions of the company are read
SubsCheck(c) ==
    /\ pc[c] = "setup"
    /\ setup_i[c] <= Len(setup_companies[c])
    /\ IF get_subscriptions_by_edrpou(SetupCompany(c)) # {}
       THEN /\ setup_i' = [setup_i EXCEPT ![c] = @ + 1]
            /\ pc' = pc
       ELSE /\ setup_i' = setup_i
            /\ pc' = [pc EXCEPT ![c] = "create"]
    /\ UNCHANGED <<dbVars, feedVars, overlap, offVars, fnVars, runs, histVars>>
    /\ UNCHANGED <<odbSubs, registrySubs, setup_companies, createReqs>>
    /\ UNCHANGED <<run, last_id, max_id, ws_case_numbers, edrpou_set, items, work, processed>>

\* lines 53-66: the create request returns an id, which is stored
CreateOk(c) ==
    /\ pc[c] = "create"
    /\ registrySubs' = RegistryCreate(registrySubs, SetupCompany(c))
    /\ odbSubs' = add_subscription(odbSubs, Cardinality(registrySubs) + 1, SetupCompany(c))
    /\ createReqs' = createReqs \cup {[edrpou |-> SetupCompany(c), run |-> run[c], ok |-> TRUE]}
    /\ setup_i' = [setup_i EXCEPT ![c] = @ + 1]
    /\ pc' = [pc EXCEPT ![c] = "setup"]
    /\ UNCHANGED <<dbVars, feedVars, overlap, offVars, fnVars, runs, histVars, setup_companies>>
    /\ UNCHANGED <<run, last_id, max_id, ws_case_numbers, edrpou_set, items, work, processed>>

\* a variant in which a failed create request ends the cycle
CreateFailAborts(c) ==
    /\ pc[c] = "create"
    /\ createReqs' = createReqs \cup {[edrpou |-> SetupCompany(c), run |-> run[c], ok |-> FALSE]}
    /\ pc' = [pc EXCEPT ![c] = "aborted"]
    /\ UNCHANGED <<dbVars, feedVars, overlap, offVars, fnVars, runs, histVars>>
    /\ UNCHANGED <<odbSubs, registrySubs, setup_companies, setup_i>>
    /\ UNCHANGED <<run, last_id, max_id, ws_case_numbers, edrpou_set, items, work, processed>>

\* lines 67-68: the create request raises, which is logged
CreateFail(c) ==
    /\ pc[c] = "create"
    /\ createReqs' = createReqs \cup {[edrpou |-> SetupCompany(c), run |-> run[c], ok |-> FALSE]}
    /\ setup_i' = [setup_i EXCEPT ![c] = @ + 1]
    /\ pc' = [pc EXCEPT ![c] = "setup"]
    /\ UNCHANGED <<dbVars, feedVars, overlap, offVars, fnVars, runs, histVars>>
    /\ UNCHANGED <<odbSubs, registrySubs, setup_companies>>
    /\ UNCHANGED <<run, last_id, max_id, ws_case_numbers, edrpou_set, items, work, processed>>

\* setup_subscriptions has returned: check_new_cases begins with its reads
Poll(c) ==
    /\ pc[c] = "setup"
    /\ setup_i[c] > Len(setup_companies[c])
    /\ last_id' = [last_id EXCEPT ![c] = cursor]
    /\ edrpou_set' = [edrpou_set EXCEPT ![c] = companies]
    /\ ws_case_numbers' = [ws_case_numbers EXCEPT ![c] =
                              IF companies = {} THEN {} ELSE get_all_case_numbers]
    /\ pc' = [pc EXCEPT ![c] = IF companies = {} THEN "done" ELSE "fetch"]
    /\ UNCHANGED <<dbVars, feedVars, overlap, offVars, subVars, fnVars, runs, histVars>>
    /\ UNCHANGED <<run, max_id, items, work, processed>>

NextSetup ==
    \/ \E u \in Users, e \in NewCodes, ok \in BOOLEAN : process_company_name(u, e, ok)
    \/ \E c \in Cycles : \E list \in Orderings(companies) : StartCycle(c, list)
    \/ \E c \in Cycles : SubsCheck(c)
    \/ \E c \in Cycles : CreateOk(c)
    \/ \E c \in Cycles : CreateFail(c)
    \/ \E c \in Cycles : Poll(c)
    \/ \E c \in Cycles : \E new \in Arrangements(upstream, MaxHist - Len(history)) :
          Fetch(c, new)
    \/ \E c \in Cycles : FetchFail(c)
    \/ \E c \in Cycles : NotifCheck(c)
    \/ \E c \in Cycles : SendOk(c)
    \/ \E c \in Cycles : SendFail(c)
    \/ \E c \in Cycles : Record(c)
    \/ \E c \in Cycles : AdvanceCursor(c)

SpecSetup == InitSetup /\ [][NextSetup]_vars

\* ---------------------------------------------------------------------
\* C27: in setup_subscriptions every active company without a stored
\* subscription gets a create request, and the id the registry returns is
\* stored; a failed request for one company stops neither the requests for
\* the remaining companies nor the poll that follows.
\* ---------------------------------------------------------------------
\* the companies the loop of setup_subscriptions has dealt with in cycle c
SetupHandled(c) ==
    {setup_companies[c][j] : j \in {k \in 1..Len(setup_companies[c]) : k < setup_i[c]}}

C27_SetupCreatesMissingSubscriptions ==
    /\ [](\A c \in Cycles : \A e \in SetupHandled(c) :
             \/ get_subscriptions_by_edrpou(e) # {}
             \/ [edrpou |-> e, run |-> run[c], ok |-> FALSE] \in createReqs)
    /\ [](\A r \in createReqs : r.ok =>
             \E s \in get_subscriptions_by_edrpou(r.edrpou) : \E g \in registrySubs :
                 g.id = s.subscription_id /\ g.key = LStrip0(r.edrpou))
    /\ [][\A c \in Cycles :
             pc[c] \in {"setup", "create"} =>
                 /\ pc'[c] \in {"setup", "create", "fetch", "done"}
                 /\ setup_i'[c] >= setup_i[c]
                 /\ (pc[c] = "create" /\ pc'[c] # pc[c] => setup_i'[c] = setup_i[c] + 1)]_vars

\* a cycle whose first request failed, whose second request succeeded and
\* was stored, and whose poll has begun
C27_Witness ==
    \E c \in Cycles :
        /\ pc[c] = "fetch"
        /\ Len(setup_companies[c]) = 2
        /\ [edrpou |-> setup_companies[c][1], run |-> run[c], ok |-> FALSE] \in createReqs
        /\ [edrpou |-> setup_companies[c][2], run |-> run[c], ok |-> TRUE] \in createReqs
        /\ get_subscriptions_by_edrpou(setup_companies[c][2]) # {}

\* ---------------------------------------------------------------------
\* C30: over company additions from the chat and monitoring cycles,
\* overlapping ones included, the registry holds at most one subscription
\* per monitored company, and no cycle sends a create request for a company
\* for which the registry already holds one.
\* ---------------------------------------------------------------------
C30_OneSubscriptionPerEntity ==
    /\ [](\A e \in companies : Cardinality(get_subscriptions(LStrip0(e))) <= 1)
    /\ [][\A c \in Cycles :
             pc[c] = "create" /\ pc'[c] = "setup" =>
                 get_subscriptions(LStrip0(SetupCompany(c))) = {}]_vars

\* ---------------------------------------------------------------------
\* C28: the analysis_notes a call of analyze_threat returns hold at least one
\* note for every input, also when the category text matches none of the
\* four category keywords and the plaintiff text holds no dangerous-plaintiff
\* keyword.
\* ---------------------------------------------------------------------
C28_NotesNeverEmpty ==
    (fn_input.fn = "analyze_threat" /\ fn_output # <<>>) =>
        Len(fn_output[1].analysis_notes) >= 1

\* the case items of the emitted events that a call of send_case_notification
\* was made for
ItemsOfCall(a) ==
    UNION {{history[k].items[j] : j \in {i \in 1..Len(history[k].items) :
                normalize_case_number(history[k].items[i].caseNumber) = a.number}} :
           k \in {h \in 1..Len(history) : history[h].notificationId = a.nid}}

\* ---------------------------------------------------------------------
\* C29: within a monitoring cycle the tiers HIGH and LOW do not occur: every
\* notification sent carries CRITICAL when the category of its case item is
\* criminal and MEDIUM otherwise.
\* ---------------------------------------------------------------------
C29_CycleTiers ==
    \A a \in attempted : \A ci \in ItemsOfCall(a) :
        a.threat_level = IF Contains(Lower(ci.form), Lower(FormCriminal))
                         THEN "CRITICAL" ELSE "MEDIUM"

====
